---- MODULE Spec2Model ----
(***************************************************************************)
(* A model of file-compare.py: the four comparison operations              *)
(* (get_hashes, file_size_compare, compare_files, same_file), the          *)
(* restricted-crypto probe is_fips_enabled, and main, which runs the       *)
(* selected axes in order.  Python exceptions are modelled as values that  *)
(* propagate: an operation yields a record [exc, ret], and an exception    *)
(* nobody catches ends main with an uncaught-exception exit status.        *)
(***************************************************************************)
EXTENDS Integers, Sequences, FiniteSets, TLC

VARIABLES fs, host, args, pc, hcall, file1_hashes, file2_hashes,
          size_compare, size_exc, cache, cmp, ran, report, exc, exit_status

vars == <<fs, host, args, pc, hcall, file1_hashes, file2_hashes,
          size_compare, size_exc, cache, cmp, ran, report, exc, exit_status>>

(***************************************************************************)
(* Bounds of the model.                                                    *)
(***************************************************************************)
\* Largest file length, in bytes.
MaxSize == 1

\* The byte values file contents are drawn from.
Bytes == {0, 1}

\* Modification times: two files have the same one or different ones.
Mtimes == {0, 1}

Contents == UNION {[1..n -> Bytes] : n \in 0..MaxSize}

(***************************************************************************)
(* The file system as the program sees it.  A path is missing, denied      *)
(* (stat fails with EACCES, e.g. an unsearchable parent directory), a      *)
(* directory, or a regular file with contents, a modification time and a   *)
(* read permission.                                                        *)
(***************************************************************************)
Entry(kind, data, mtime, readable) ==
    [kind |-> kind, data |-> data, mtime |-> mtime, readable |-> readable]

Entries ==
    {Entry("missing", <<>>, 0, FALSE), Entry("denied", <<>>, 0, FALSE),
     Entry("dir", <<>>, 0, TRUE)}
    \cup {Entry("file", d, m, r) : d \in Contents, m \in Mtimes, r \in BOOLEAN}

\* same: both paths name one file-system entity (a hard link, or one path twice).
FileSystems ==
    {[file1 |-> a, file2 |-> b, same |-> s] :
        a \in Entries, b \in Entries, s \in BOOLEAN}

ValidFs(f) ==
    f.same => (f.file1 = f.file2 /\ f.file1.kind \in {"file", "dir"})

(***************************************************************************)
(* The host the probe runs on: sys.platform and what the platform's probe  *)
(* meets.  outcome is "ok" or the exception the probe's system call        *)
(* raises; text is what was read (the flag file, grep's stdout); dword is  *)
(* the registry value.                                                     *)
(***************************************************************************)
HostRec(platform, outcome, text, dword) ==
    [platform |-> platform, outcome |-> outcome, text |-> text, dword |-> dword]

Hosts ==
    {HostRec("linux", "ok", t, 0) : t \in {<<"1", "\n">>, <<"0", "\n">>}}
    \cup {HostRec("linux", e, <<>>, 0) : e \in {"FileNotFoundError", "PermissionError"}}
    \cup {HostRec("darwin", "ok", t, 0) : t \in {<<>>, <<"f", "\n">>}}
    \cup {HostRec("darwin", "FileNotFoundError", <<>>, 0)}
    \cup {HostRec("win32", "ok", <<>>, v) : v \in {0, 1}}
    \cup {HostRec("win32", e, <<>>, 0) :
            e \in {"ImportError", "FileNotFoundError", "PermissionError", "OSError"}}
    \cup {HostRec("freebsd", "ok", <<>>, 0)}

(***************************************************************************)
(* Results of a call: an exception ("none" when it returned) and a value.  *)
(***************************************************************************)
Returns(v) == [exc |-> "none", ret |-> v]

Raises(e) == [exc |-> e, ret |-> FALSE]

\* str.strip(): leading and trailing whitespace removed.
Whitespace == {" ", "\n", "\t"}

RECURSIVE lstrip(_)
lstrip(s) ==
    IF s # <<>> /\ Head(s) \in Whitespace THEN lstrip(Tail(s)) ELSE s

RECURSIVE rstrip(_)
rstrip(s) ==
    IF s # <<>> /\ s[Len(s)] \in Whitespace
    THEN rstrip(SubSeq(s, 1, Len(s) - 1))
    ELSE s

strip(s) == rstrip(lstrip(s))

(***************************************************************************)
(* is_fips_enabled: the platform's probe, and the exceptions each branch   *)
(* catches.                                                                *)
(***************************************************************************)
is_fips_enabled(h) ==
    IF h.platform = "linux"
    THEN IF h.outcome = "ok" THEN Returns(strip(h.text) = <<"1">>)
         ELSE IF h.outcome = "FileNotFoundError" THEN Returns(FALSE)
         ELSE Raises(h.outcome)
    ELSE IF h.platform = "darwin"
    THEN IF h.outcome = "ok" THEN Returns(Len(strip(h.text)) > 0)
         ELSE Returns(FALSE)
    ELSE IF h.platform = "win32"
    THEN IF h.outcome = "ok" THEN Returns(h.dword # 0)
         ELSE IF h.outcome \in {"FileNotFoundError", "PermissionError", "ImportError"}
         THEN Returns(FALSE)
         ELSE Raises(h.outcome)
    ELSE Returns(FALSE)

(***************************************************************************)
(* hashlib's digests of the contents the model draws.                      *)
(***************************************************************************)
md5_hexdigest(data) ==
    CASE data = <<>> -> "d41d8cd98f00b204e9800998ecf8427e"
      [] data = <<0>> -> "93b885adfe0da089cdf634904fd59f71"
      [] data = <<1>> -> "55a54008ad1ba589aa210d2629c1df41"
      [] data = <<0, 0>> -> "c4103f122d27677c9db144cae1394a66"
      [] data = <<0, 1>> -> "441077cc9e57554dd476bdfb8b8b8102"
      [] data = <<1, 0>> -> "25daad3d9e60b45043a70c4ab7d3b1c6"
      [] data = <<1, 1>> -> "249ba6277758050695e8f5909bacd6d3"
      [] data = <<0, 0, 0>> -> "693e9af84d3dfcc71e640e005bdc5e2e"
      [] data = <<0, 0, 1>> -> "380e1e55df5600fe67ee74c667c27aae"
      [] data = <<0, 1, 0>> -> "418f2796e56f1a882529d8be1664eed0"
      [] data = <<0, 1, 1>> -> "34fd7b20a247ba3fa75815cbe3732884"
      [] data = <<1, 0, 0>> -> "30a771fb83c2f5000a74d41689f19c76"
      [] data = <<1, 0, 1>> -> "01e9802fd906341a2b769125c562d95c"
      [] data = <<1, 1, 0>> -> "92ca13cfa0db1c9db660ee0e7f4f3220"
      [] data = <<1, 1, 1>> -> "12f023f06e7ec12986f1ff0a2e26188e"

sha1_hexdigest(data) ==
    CASE data = <<>> -> "da39a3ee5e6b4b0d3255bfef95601890afd80709"
      [] data = <<0>> -> "5ba93c9db0cff93f52b521d7420e43f6eda2784f"
      [] data = <<1>> -> "bf8b4530d8d246dd74ac53a13471bba17941dff7"
      [] data = <<0, 0>> -> "1489f923c4dca729178b3e3233458550d8dddf29"
      [] data = <<0, 1>> -> "3f29546453678b855931c174a97d6c0894b8f546"
      [] data = <<1, 0>> -> "0e356ba505631fbf715758bed27d503f8b260e3a"
      [] data = <<1, 1>> -> "9159cb8bcee7fcb95582f140960cdae72788d326"
      [] data = <<0, 0, 0>> -> "29e2dcfbb16f63bb0254df7585a15bb6fb5e927d"
      [] data = <<0, 0, 1>> -> "2547cc736e951fa4919853c43ae890861a3b3264"
      [] data = <<0, 1, 0>> -> "62571891215b4efc1ceab744ce59dd0b66ea6f73"
      [] data = <<0, 1, 1>> -> "eee447edc79fea1ca7c7d34e463261cda4ba339e"
      [] data = <<1, 0, 0>> -> "9508e90548b0440a4a61e5743b76c1e309b23b7f"
      [] data = <<1, 0, 1>> -> "c42ac1c46f1d4e211c735cc7dfad4ff8391110e9"
      [] data = <<1, 1, 0>> -> "47ec8d98366433dc002e7721c9e37d5067547937"
      [] data = <<1, 1, 1>> -> "28d86c56b3bf26d236569b8dc8c3f91f32f47bc7"

\* The digest of the empty byte sequence.
SHA1_EMPTY == "da39a3ee5e6b4b0d3255bfef95601890afd80709"

(***************************************************************************)
(* The system calls the operations make, by the kind of entry they meet.   *)
(* Each yields the exception it raises, or "none".                         *)
(***************************************************************************)
\* os.stat(path), as os.path.getsize, filecmp.cmp and os.path.samefile use it.
os_stat(e) ==
    IF e.kind = "missing" THEN "FileNotFoundError"
    ELSE IF e.kind = "denied" THEN "PermissionError"
    ELSE "none"

\* open(filepath, "rb")
open_rb(e) ==
    IF os_stat(e) # "none" THEN os_stat(e)
    ELSE IF e.kind = "dir" THEN "IsADirectoryError"
    ELSE IF ~e.readable THEN "PermissionError"
    ELSE "none"

\* mmap.mmap(f.fileno(), 0, access=mmap.ACCESS_READ): a length of 0 maps the
\* whole file, and an empty file cannot be mapped.
mmap_whole(e) ==
    IF Len(e.data) = 0 THEN "ValueError" ELSE "none"

(***************************************************************************)
(* get_hashes(filepath), step by step: the probe, open, mmap, the digests, *)
(* and the exits of the two with blocks.  hcall is the call in progress    *)
(* (or the last one made): f_open and mm_open say which of its resources   *)
(* are open, exc is the exception in flight, at the step where it arose.   *)
(***************************************************************************)
IdleCall ==
    [path |-> "none", pc |-> "idle", fips_mode |-> FALSE, f_open |-> FALSE,
     mm_open |-> FALSE, exc |-> "none", at |-> "none", ret |-> <<>>]

StartCall(path) == [IdleCall EXCEPT !.path = path, !.pc = "probe"]

\* A variant of hash_dict that computes both digests whatever the probe said.
hash_dict_both(fips_mode, data) ==
    [md5 |-> md5_hexdigest(data), sha1 |-> sha1_hexdigest(data),
     fips_mode |-> fips_mode]

\* The dictionary get_hashes returns.
hash_dict(fips_mode, data) ==
    IF fips_mode
    THEN [sha1 |-> sha1_hexdigest(data), fips_mode |-> TRUE]
    ELSE [md5 |-> md5_hexdigest(data), sha1 |-> sha1_hexdigest(data),
          fips_mode |-> FALSE]

\* __exit__ of "with mmap.mmap(...) as mm": the map is closed.
exit_mm(h) == [h EXCEPT !.mm_open = FALSE]

\* A variant of exit_f that closes the file on the normal path only.
exit_f_on_success(h) ==
    IF h.exc # "none" THEN h ELSE [h EXCEPT !.f_open = FALSE]

\* __exit__ of "with open(...) as f": the file is closed.
exit_f(h) == [h EXCEPT !.f_open = FALSE]

CallEntry == IF hcall.path = "file2" THEN fs.file2 ELSE fs.file1

MainVarsInCall ==
    <<fs, host, args, pc, file1_hashes, file2_hashes, size_compare, size_exc, cache, cmp,
      ran, report, exc, exit_status>>

\* fips_mode = is_fips_enabled(), outside both with blocks.
GH_Probe ==
    /\ hcall.pc = "probe"
    /\ LET r == is_fips_enabled(host)
       IN  hcall' = IF r.exc # "none"
                    THEN [hcall EXCEPT !.pc = "raised", !.exc = r.exc, !.at = "probe"]
                    ELSE [hcall EXCEPT !.pc = "open", !.fips_mode = r.ret]
    /\ UNCHANGED MainVarsInCall

\* with open(filepath, "rb") as f: a failure to open leaves nothing to close.
GH_Open ==
    /\ hcall.pc = "open"
    /\ LET e == open_rb(CallEntry)
       IN  hcall' = IF e # "none"
                    THEN [hcall EXCEPT !.pc = "raised", !.exc = e, !.at = "open"]
                    ELSE [hcall EXCEPT !.pc = "mmap", !.f_open = TRUE]
    /\ UNCHANGED MainVarsInCall

\* with mmap.mmap(...) as mm: a failure is in flight with the file open.
GH_Mmap ==
    /\ hcall.pc = "mmap"
    /\ LET e == mmap_whole(CallEntry)
       IN  hcall' = IF e # "none"
                    THEN [hcall EXCEPT !.pc = "exit", !.exc = e, !.at = "mmap"]
                    ELSE [hcall EXCEPT !.pc = "digest", !.mm_open = TRUE]
    /\ UNCHANGED MainVarsInCall

\* The return expression: the digests of the mapped bytes.  hashlib.md5
\* raises ValueError where the crypto provider forbids MD5.
GH_Digest ==
    /\ hcall.pc = "digest"
    /\ \E md5_ok \in BOOLEAN :
         hcall' = IF ~hcall.fips_mode /\ ~md5_ok
                  THEN [hcall EXCEPT !.pc = "exit", !.exc = "ValueError",
                                     !.at = "digest"]
                  ELSE [hcall EXCEPT !.pc = "exit",
                          !.ret = hash_dict(hcall.fips_mode, CallEntry.data)]
    /\ UNCHANGED MainVarsInCall

\* Leaving the with blocks, by return or by exception: the inner one, then
\* the outer one; then the call returns or the exception propagates.
GH_Exit ==
    /\ hcall.pc = "exit"
    /\ LET h == exit_f(exit_mm(hcall))
       IN  hcall' = [h EXCEPT !.pc = IF h.exc # "none" THEN "raised" ELSE "returned"]
    /\ UNCHANGED MainVarsInCall

CallEnded == hcall.pc \in {"returned", "raised"}

(***************************************************************************)
(* main.  args is what parse_args returned; pc is the position in main.    *)
(***************************************************************************)
Axes == {"hash", "size", "compare", "symlink"}

\* print_all = not (args.hash or args.size or args.compare or args.symlink)
print_all == ~(args.hash \/ args.size \/ args.compare \/ args.symlink)

\* An exception nobody catches leaves main: the interpreter prints the
\* traceback and the process ends with status 1.
Abort(e) ==
    /\ pc' = "raised"
    /\ exc' = e
    /\ exit_status' = 1

\* d.get(key, default) and d[key] of a dictionary.
dict_get(d, key, default) == IF key \in DOMAIN d THEN d[key] ELSE default

has_key(d, key) == key \in DOMAIN d

\* if args.hash or print_all: file1_hashes = get_hashes(args.file1) is called.
HashAxis ==
    /\ pc = "hash"
    /\ IF args.hash \/ print_all
       THEN /\ ran' = ran \cup {"hash"}
            /\ hcall' = StartCall("file1")
            /\ pc' = "hash1"
       ELSE /\ pc' = "size"
            /\ UNCHANGED <<ran, hcall>>
    /\ UNCHANGED <<fs, host, args, file1_hashes, file2_hashes, size_compare, size_exc,
                   cache, cmp, report, exc, exit_status>>

\* get_hashes(args.file1) ends; file2_hashes = get_hashes(args.file2) is called.
HashResult1 ==
    /\ pc = "hash1"
    /\ CallEnded
    /\ IF hcall.pc = "raised"
       THEN /\ Abort(hcall.exc)
            /\ UNCHANGED <<hcall, file1_hashes>>
       ELSE /\ file1_hashes' = hcall.ret
            /\ hcall' = StartCall("file2")
            /\ pc' = "hash2"
            /\ UNCHANGED <<exc, exit_status>>
    /\ UNCHANGED <<fs, host, args, file2_hashes, size_compare, size_exc, cache, cmp, ran,
                   report>>

\* get_hashes(args.file2) ends.
HashResult2 ==
    /\ pc = "hash2"
    /\ CallEnded
    /\ IF hcall.pc = "raised"
       THEN /\ Abort(hcall.exc)
            /\ UNCHANGED file2_hashes
       ELSE /\ file2_hashes' = hcall.ret
            /\ pc' = "hashprint"
            /\ UNCHANGED <<exc, exit_status>>
    /\ UNCHANGED <<fs, host, args, hcall, file1_hashes, size_compare, size_exc, cache, cmp,
                   ran, report>>

\* The hash block's prints: the lookups they make in the two dictionaries.
HashPrint ==
    /\ pc = "hashprint"
    /\ LET fips == dict_get(file1_hashes, "fips_mode", FALSE)
           keys == IF fips THEN {"sha1"} ELSE {"md5", "sha1"}
       IN  IF \A k \in keys : has_key(file1_hashes, k) /\ has_key(file2_hashes, k)
           THEN /\ report' = report \cup {"hash"}
                /\ pc' = "size"
                /\ UNCHANGED <<exc, exit_status>>
           ELSE /\ Abort("KeyError")
                /\ UNCHANGED report
    /\ UNCHANGED <<fs, host, args, hcall, file1_hashes, file2_hashes,
                   size_compare, size_exc, cache, cmp, ran>>

(***************************************************************************)
(* file_size_compare(file1, file2).  Its result is the 4-tuple, the error  *)
(* dictionary, or None.                                                    *)
(***************************************************************************)
\* os.path.exists(path): whether os.stat succeeds.
path_exists(e) == os_stat(e) = "none"

\* os.path.isdir(path)
path_isdir(e) == e.kind = "dir"

\* os.path.getsize(path): the st_size of os.stat(path).
getsize(e) ==
    IF os_stat(e) # "none" THEN Raises(os_stat(e)) ELSE Returns(Len(e.data))

\* A variant of neither_exists that rejects the pair when either is missing.
either_missing(e1, e2) == ~path_exists(e1) \/ ~path_exists(e2)

\* not os.path.exists(file1) and not os.path.exists(file2)
neither_exists(e1, e2) == ~path_exists(e1) /\ ~path_exists(e2)

\* os.path.isdir(file1) or os.path.isdir(file2)
either_isdir(e1, e2) == path_isdir(e1) \/ path_isdir(e2)

abs(x) == IF x < 0 THEN 0 - x ELSE x

\* A variant of size_tuple with the signed difference.
size_tuple_signed(size1, size2) ==
    [tag |-> "tuple", t |-> <<size1, size2, size1 - size2, size1 = size2>>]

\* (size1, size2, (abs(size1 - size2)), (size1 == size2))
size_tuple(size1, size2) ==
    [tag |-> "tuple", t |-> <<size1, size2, abs(size1 - size2), size1 = size2>>]

ErrorDict(msg) == [tag |-> "dict", error |-> msg]

NoneValue == [tag |-> "None"]

\* The body of the try block.
size_compare_body(e1, e2) ==
    IF neither_exists(e1, e2)
    THEN Returns(ErrorDict("One of both of the files do not exist"))
    ELSE IF either_isdir(e1, e2)
    THEN Returns(ErrorDict("Cannot compare directory sizes"))
    ELSE IF getsize(e1).exc # "none" THEN Raises(getsize(e1).exc)
    ELSE IF getsize(e2).exc # "none" THEN Raises(getsize(e2).exc)
    ELSE Returns(size_tuple(getsize(e1).ret, getsize(e2).ret))

\* try: ... except PermissionError: return
file_size_compare(e1, e2) ==
    IF size_compare_body(e1, e2).exc = "PermissionError"
    THEN Returns(NoneValue)
    ELSE size_compare_body(e1, e2)

(***************************************************************************)
(* compare_files(file1, file2, shallow) calls filecmp.cmp, which compares  *)
(* the stat signatures (type, size, mtime) before it reads anything and    *)
(* keeps the outcomes of its content comparisons in a cache.               *)
(***************************************************************************)
\* filecmp._sig(os.stat(path))
sig(e) == <<IF e.kind = "file" THEN "S_IFREG" ELSE "S_IFDIR", Len(e.data), e.mtime>>

CacheKey(e1, e2) == <<"file1", "file2", sig(e1), sig(e2)>>

Cached(c, key) == \E r \in c : r.key = key

CachedOutcome(c, key) == (CHOOSE r \in c : r.key = key).outcome

CmpResult(e, v, read, c) == [exc |-> e, ret |-> v, read |-> read, cache |-> c]

\* filecmp._do_cmp(f1, f2): both files are opened and read to the end.
do_cmp(e1, e2, c) ==
    IF open_rb(e1) # "none" THEN CmpResult(open_rb(e1), FALSE, FALSE, c)
    ELSE IF open_rb(e2) # "none" THEN CmpResult(open_rb(e2), FALSE, FALSE, c)
    ELSE CmpResult("none", e1.data = e2.data, TRUE,
                   c \cup {[key |-> CacheKey(e1, e2), outcome |-> e1.data = e2.data]})

\* filecmp.cmp(f1, f2, shallow) with the cache c.  (The cache is cleared
\* beyond 100 entries; one run holds at most one.)
filecmp_cmp(e1, e2, shallow, c) ==
    IF os_stat(e1) # "none" THEN CmpResult(os_stat(e1), FALSE, FALSE, c)
    ELSE IF os_stat(e2) # "none" THEN CmpResult(os_stat(e2), FALSE, FALSE, c)
    ELSE IF sig(e1)[1] # "S_IFREG" \/ sig(e2)[1] # "S_IFREG"
    THEN CmpResult("none", FALSE, FALSE, c)
    ELSE IF shallow /\ sig(e1) = sig(e2) THEN CmpResult("none", TRUE, FALSE, c)
    ELSE IF sig(e1)[2] # sig(e2)[2] THEN CmpResult("none", FALSE, FALSE, c)
    ELSE IF Cached(c, CacheKey(e1, e2))
    THEN CmpResult("none", CachedOutcome(c, CacheKey(e1, e2)), FALSE, c)
    ELSE do_cmp(e1, e2, c)

\* A variant of compare_files that drops the shallow argument.
compare_files_always_deep(e1, e2, shallow, c) == filecmp_cmp(e1, e2, FALSE, c)

\* file_compare = filecmp.cmp(file1, file2, shallow=shallow)
compare_files(e1, e2, shallow, c) == filecmp_cmp(e1, e2, shallow, c)

NoCmp ==
    [called |-> FALSE, shallow |-> FALSE, exc |-> "none", ret |-> FALSE,
     read |-> FALSE]

CmpCall(shallow, r) ==
    [called |-> TRUE, shallow |-> shallow, exc |-> r.exc, ret |-> r.ret,
     read |-> r.read]

(***************************************************************************)
(* same_file(file1, file2): os.path.samefile stats both paths and compares *)
(* device and inode.                                                       *)
(***************************************************************************)
same_file(f) ==
    IF os_stat(f.file1) # "none" THEN Raises(os_stat(f.file1))
    ELSE IF os_stat(f.file2) # "none" THEN Raises(os_stat(f.file2))
    ELSE Returns(f.same)

(***************************************************************************)
(* The size, content and identity blocks of main.                          *)
(***************************************************************************)
\* if args.size or print_all: size_compare = file_size_compare(...).
\* size_exc records how the call ended: "none", or the exception it raised.
SizeAxis ==
    /\ pc = "size"
    /\ IF args.size \/ print_all
       THEN /\ ran' = ran \cup {"size"}
            /\ LET r == file_size_compare(fs.file1, fs.file2)
               IN  /\ size_exc' = r.exc
                   /\ IF r.exc # "none"
                      THEN /\ Abort(r.exc)
                           /\ UNCHANGED size_compare
                      ELSE /\ size_compare' = r.ret
                           /\ pc' = "sizeprint"
                           /\ UNCHANGED <<exc, exit_status>>
       ELSE /\ pc' = "compare"
            /\ UNCHANGED <<ran, size_compare, size_exc, exc, exit_status>>
    /\ UNCHANGED <<fs, host, args, hcall, file1_hashes, file2_hashes, cache, cmp,
                   report>>

\* The size block's prints: size_compare[0] .. size_compare[3].  A
\* dictionary has no key 0 and None is not subscriptable.
SizePrint ==
    /\ pc = "sizeprint"
    /\ IF size_compare.tag = "tuple"
       THEN /\ report' = report \cup {"size"}
            /\ pc' = "compare"
            /\ UNCHANGED <<exc, exit_status>>
       ELSE /\ Abort(IF size_compare.tag = "dict" THEN "KeyError" ELSE "TypeError")
            /\ UNCHANGED report
    /\ UNCHANGED <<fs, host, args, hcall, file1_hashes, file2_hashes,
                   size_compare, size_exc, cache, cmp, ran>>

\* if args.compare or print_all: compare_files(..., shallow=True)
CompareAxis ==
    /\ pc = "compare"
    /\ IF args.compare \/ print_all
       THEN /\ ran' = ran \cup {"compare"}
            /\ LET r == compare_files(fs.file1, fs.file2, TRUE, cache)
               IN  /\ cmp' = CmpCall(TRUE, r)
                   /\ cache' = r.cache
                   /\ IF r.exc # "none"
                      THEN Abort(r.exc)
                      ELSE /\ pc' = "compare2"
                           /\ UNCHANGED <<exc, exit_status>>
       ELSE /\ pc' = "symlink"
            /\ UNCHANGED <<ran, cmp, cache, exc, exit_status>>
    /\ UNCHANGED <<fs, host, args, hcall, file1_hashes, file2_hashes,
                   size_compare, size_exc, report>>

\* compare_files(..., shallow=False)
CompareDeep ==
    /\ pc = "compare2"
    /\ LET r == compare_files(fs.file1, fs.file2, FALSE, cache)
       IN  /\ cmp' = CmpCall(FALSE, r)
           /\ cache' = r.cache
           /\ IF r.exc # "none"
              THEN /\ Abort(r.exc)
                   /\ UNCHANGED report
              ELSE /\ report' = report \cup {"compare"}
                   /\ pc' = "symlink"
                   /\ UNCHANGED <<exc, exit_status>>
    /\ UNCHANGED <<fs, host, args, hcall, file1_hashes, file2_hashes,
                   size_compare, size_exc, ran>>

\* if args.symlink or print_all: os.path.islink of each path (it returns
\* False where lstat fails, and raises nothing), then same_file.
IdentityAxis ==
    /\ pc = "symlink"
    /\ IF args.symlink \/ print_all
       THEN /\ ran' = ran \cup {"symlink"}
            /\ IF same_file(fs).exc # "none"
               THEN /\ Abort(same_file(fs).exc)
                    /\ UNCHANGED report
               ELSE /\ report' = report \cup {"symlink"}
                    /\ pc' = "return"
                    /\ UNCHANGED <<exc, exit_status>>
       ELSE /\ pc' = "return"
            /\ UNCHANGED <<ran, report, exc, exit_status>>
    /\ UNCHANGED <<fs, host, args, hcall, file1_hashes, file2_hashes,
                   size_compare, size_exc, cache, cmp>>

\* return 0: main ends and the process exits with status 0.
MainReturn ==
    /\ pc = "return"
    /\ pc' = "done"
    /\ exit_status' = 0
    /\ UNCHANGED <<fs, host, args, hcall, file1_hashes, file2_hashes,
                   size_compare, size_exc, cache, cmp, ran, report, exc>>

(***************************************************************************)
(* The specification: main starts with the arguments parsed, on any file   *)
(* pair and any host.                                                      *)
(***************************************************************************)
Init ==
    /\ fs \in {f \in FileSystems : ValidFs(f)}
    /\ host \in Hosts
    /\ args \in [hash : BOOLEAN, size : BOOLEAN, compare : BOOLEAN,
                 symlink : BOOLEAN]
    /\ pc = "hash"
    /\ hcall = IdleCall
    /\ file1_hashes = <<>>
    /\ file2_hashes = <<>>
    /\ size_compare = [tag |-> "unset"]
    /\ size_exc = "uncalled"
    /\ cache = {}
    /\ cmp = NoCmp
    /\ ran = {}
    /\ report = {}
    /\ exc = "none"
    /\ exit_status = -1

Next ==
    \/ HashAxis
    \/ GH_Probe
    \/ GH_Open
    \/ GH_Mmap
    \/ GH_Digest
    \/ GH_Exit
    \/ HashResult1
    \/ HashResult2
    \/ HashPrint
    \/ SizeAxis
    \/ SizePrint
    \/ CompareAxis
    \/ CompareDeep
    \/ IdentityAxis
    \/ MainReturn

Spec == Init /\ [][Next]_vars

(***************************************************************************)
(* Properties.                                                             *)
(***************************************************************************)
MainEnded == pc \in {"done", "raised"}

\* The axes the selectors ask for: all four when none is given.
Selected == {a \in Axes : print_all \/ args[a]}

BothRegular == fs.file1.kind = "file" /\ fs.file2.kind = "file"

SameSize == Len(fs.file1.data) = Len(fs.file2.data)

SameMtime == fs.file1.mtime = fs.file2.mtime

ShallowReturned == cmp.called /\ cmp.shallow /\ cmp.exc = "none"

\* C1: whatever the file pair and the selected axes, main does not raise
\* when an axis fails: it ends normally and every selected axis has run.
C1_AxisFailuresRecorded ==
    MainEnded => (pc = "done" /\ Selected \subseteq ran)

\* C2: get_hashes on an existing, readable zero-byte file returns, and its
\* sha1 is the digest of the empty byte sequence.
C2_EmptyFileHashes ==
    (CallEnded /\ hcall.at # "probe" /\ open_rb(CallEntry) = "none"
        /\ Len(CallEntry.data) = 0)
    => (hcall.pc = "returned" /\ hcall.ret.sha1 = SHA1_EMPTY)

\* C3: is_fips_enabled never raises: on every platform a failed probe is
\* swallowed and the answer is false.
C3_ProbeNeverRaises ==
    (hcall.pc \notin {"idle", "probe"})
    => (hcall.at # "probe" /\ (host.outcome # "ok" => ~hcall.fips_mode))

C6_SizePayload ==
    (size_compare.tag = "tuple") =>
        LET t == size_compare.t
        IN  /\ t[1] = Len(fs.file1.data)
            /\ t[2] = Len(fs.file2.data)
            /\ t[3] = (IF t[1] >= t[2] THEN t[1] - t[2] ELSE t[2] - t[1])
            /\ t[3] >= 0
            /\ t[4] = (t[1] = t[2])

\* C6 witness: a zero-byte first file against a longer second one.
C6_Witness ==
    /\ size_compare.tag = "tuple"
    /\ size_compare.t[1] = 0
    /\ size_compare.t[2] > 0
    /\ ~size_compare.t[4]

\* C7: a dictionary get_hashes returns holds sha1 alone and a true flag
\* when the probe reported restricted, and md5 and sha1 and a false flag
\* when it did not.
C7_HashSetShape ==
    (hcall.pc = "returned") =>
        LET algos == DOMAIN hcall.ret \ {"fips_mode"}
        IN  /\ "fips_mode" \in DOMAIN hcall.ret
            /\ IF is_fips_enabled(host).ret
               THEN algos = {"sha1"} /\ hcall.ret.fips_mode = TRUE
               ELSE /\ {"md5", "sha1"} \subseteq algos
                    /\ Cardinality(algos) >= 2
                    /\ hcall.ret.fips_mode = FALSE

\* C7 witness: a call returned on a host whose probe reports restricted.
C7_Witness ==
    /\ hcall.pc = "returned"
    /\ is_fips_enabled(host).ret
    /\ hcall.ret.fips_mode

\* C8: when main ends, the axes that ran are the selected ones: all four
\* when no selector is given, otherwise those whose selector is given.
C8_AxisSelection ==
    MainEnded => ran = Selected

\* C9: when file_size_compare returns its error dictionary or None, main
\* completes and the process exits with status 0.
C9_SoftSizeErrorExitsZero ==
    (MainEnded /\ size_exc = "none" /\ size_compare.tag \in {"dict", "None"})
    => exit_status = 0

\* C10: when a get_hashes call ends, by return or by exception, the file
\* handle and the memory map it opened are closed.
C10_HandlesReleased ==
    (CallEnded \/ hcall.pc = "idle") => (~hcall.f_open /\ ~hcall.mm_open)

\* C10 witness: the map could not be created with the file already open,
\* and the call ended with the exception.
C10_Witness ==
    /\ hcall.pc = "raised"
    /\ hcall.at = "mmap"
    /\ ~hcall.f_open

(***************************************************************************)
(* What holds of the axis guards themselves: only selected axes run, and   *)
(* a main that returns has run exactly the selected ones.                  *)
(***************************************************************************)
AxisGuardsSound ==
    /\ ran \subseteq Selected
    /\ (pc = "done" => (ran = Selected /\ report = Selected /\ exit_status = 0))

====
